---- MODULE Spec2Model ----
(***************************************************************************)
(* Model of src/fastly-gorkbot.js: the POST /interactions handler of       *)
(* GorkBot (signature verification, JSON decoding, interaction dispatch).  *)
(*                                                                         *)
(* Strings are sequences of Unicode code points, byte arrays are           *)
(* sequences of numbers in 0..255.  JavaScript values are tagged records.  *)
(***************************************************************************)
EXTENDS Integers, Sequences, FiniteSets, TLC

\* ------------------------------------------------------------------------
\* Bounds of the model (not program constants)
\* ------------------------------------------------------------------------
\* handlers that may be in flight at once in SpecConc
NumHandlers == 2
\* Math.random() is drawn from { k / RandRes : k \in 0..RandRes-1 }
RandRes == 4
\* longest raw body enumerated in SpecMsg
MaxBodyLen == 3

\* ------------------------------------------------------------------------
\* Text: UTF-8 decoding (Body.text()) and encoding (TextEncoder.encode)
\* ------------------------------------------------------------------------
ReplacementChar == 65533

\* The WHATWG UTF-8 decoder run by Body.text(): b the bytes, i the position,
\* need the continuation bytes still expected, cp the code point so far,
\* lo..hi the range allowed for the next continuation byte.
RECURSIVE Utf8DecodeFrom(_, _, _, _, _, _, _)
Utf8DecodeFrom(b, i, need, cp, lo, hi, out) ==
    IF i > Len(b)
    THEN IF need # 0 THEN Append(out, ReplacementChar) ELSE out
    ELSE LET byte == b[i] IN
         IF need = 0
         THEN IF byte <= 127
              THEN Utf8DecodeFrom(b, i + 1, 0, 0, 128, 191, Append(out, byte))
              ELSE IF byte >= 194 /\ byte <= 223
              THEN Utf8DecodeFrom(b, i + 1, 1, byte % 32, 128, 191, out)
              ELSE IF byte >= 224 /\ byte <= 239
              THEN Utf8DecodeFrom(b, i + 1, 2, byte % 16,
                                  IF byte = 224 THEN 160 ELSE 128,
                                  IF byte = 237 THEN 159 ELSE 191, out)
              ELSE IF byte >= 240 /\ byte <= 244
              THEN Utf8DecodeFrom(b, i + 1, 3, byte % 8,
                                  IF byte = 240 THEN 144 ELSE 128,
                                  IF byte = 244 THEN 143 ELSE 191, out)
              ELSE Utf8DecodeFrom(b, i + 1, 0, 0, 128, 191,
                                  Append(out, ReplacementChar))
         ELSE IF byte < lo \/ byte > hi
              THEN \* malformed sequence: U+FFFD, and the byte is read again
                   Utf8DecodeFrom(b, i, 0, 0, 128, 191,
                                  Append(out, ReplacementChar))
              ELSE IF need = 1
              THEN Utf8DecodeFrom(b, i + 1, 0, 0, 128, 191,
                                  Append(out, cp * 64 + (byte % 64)))
              ELSE Utf8DecodeFrom(b, i + 1, need - 1, cp * 64 + (byte % 64),
                                  128, 191, out)

\* "UTF-8 decode": a leading byte order mark EF BB BF is dropped first.
Utf8Decode(b) ==
    IF Len(b) >= 3 /\ b[1] = 239 /\ b[2] = 187 /\ b[3] = 191
    THEN Utf8DecodeFrom(b, 4, 0, 0, 128, 191, <<>>)
    ELSE Utf8DecodeFrom(b, 1, 0, 0, 128, 191, <<>>)

\* the UTF-8 bytes of one code point (a scalar value)
Utf8EncodeChar(c) ==
    IF c <= 127 THEN <<c>>
    ELSE IF c <= 2047 THEN <<192 + (c \div 64), 128 + (c % 64)>>
    ELSE IF c <= 65535
    THEN <<224 + (c \div 4096), 128 + ((c \div 64) % 64), 128 + (c % 64)>>
    ELSE <<240 + (c \div 262144), 128 + ((c \div 4096) % 64),
           128 + ((c \div 64) % 64), 128 + (c % 64)>>

RECURSIVE Utf8Encode(_)
Utf8Encode(s) ==
    IF s = <<>> THEN <<>> ELSE Utf8EncodeChar(Head(s)) \o Utf8Encode(Tail(s))

\* ------------------------------------------------------------------------
\* hexToBytes (lines 49-55) and the parseInt(_, 16) it relies on
\* ------------------------------------------------------------------------
\* value of a hexadecimal digit, -1 for any other character
HexDigit(c) ==
    IF c >= 48 /\ c <= 57 THEN c - 48
    ELSE IF c >= 97 /\ c <= 102 THEN c - 87
    ELSE IF c >= 65 /\ c <= 70 THEN c - 55
    ELSE -1

IsWhiteSpace(c) == c \in {9, 10, 11, 12, 13, 32}

RECURSIVE TrimStart(_)
TrimStart(s) ==
    IF s # <<>> /\ IsWhiteSpace(Head(s)) THEN TrimStart(Tail(s)) ELSE s

\* the digits of the longest hexadecimal prefix of s, read as a number
RECURSIVE HexPrefix(_, _)
HexPrefix(s, acc) ==
    IF s = <<>> \/ HexDigit(Head(s)) < 0 THEN acc
    ELSE HexPrefix(Tail(s), acc * 16 + HexDigit(Head(s)))

\* parseInt(s, 16): white space, sign, optional 0x, longest digit prefix;
\* NaN when no digit is left.
ParseInt16(s) ==
    LET t     == TrimStart(s)
        neg   == t # <<>> /\ Head(t) = 45
        u     == IF t # <<>> /\ Head(t) \in {43, 45} THEN Tail(t) ELSE t
        v     == IF Len(u) >= 2 /\ u[1] = 48 /\ u[2] \in {88, 120}
                 THEN SubSeq(u, 3, Len(u)) ELSE u
    IN  IF v = <<>> \/ HexDigit(Head(v)) < 0
        THEN [nan |-> TRUE, n |-> 0]
        ELSE [nan |-> FALSE,
              n |-> IF neg THEN 0 - HexPrefix(v, 0) ELSE HexPrefix(v, 0)]

\* storing a number in a Uint8Array element: NaN becomes 0, else mod 2^8
ToUint8(v) == IF v.nan THEN 0 ELSE v.n % 256

\* hex.substr(i, 2) with i counted from 0
Substr2(hex, i) ==
    SubSeq(hex, i + 1, IF i + 2 <= Len(hex) THEN i + 2 ELSE Len(hex))

\* new Uint8Array(hex.length / 2) truncates the length; a write past the
\* end of the array (the last, lone character of an odd string) is dropped.
hexToBytes(hex) ==
    [k \in 1..(Len(hex) \div 2) |-> ToUint8(ParseInt16(Substr2(hex, 2 * (k - 1))))]

\* ------------------------------------------------------------------------
\* JavaScript values and JSON.parse (line 75)
\* ------------------------------------------------------------------------
JUndefined == [tag |-> "undefined"]
JNull      == [tag |-> "null"]
JBool(b)   == [tag |-> "boolean", b |-> b]
JNum(n)    == [tag |-> "number", n |-> n]
JStr(s)    == [tag |-> "string", s |-> s]
JObj(f)    == [tag |-> "object", f |-> f]

\* v.key throws a TypeError when v is undefined or null
CanRead(v) == v.tag \notin {"undefined", "null"}

\* v.key for a readable v: the member of an object, undefined otherwise
\* (none of the keys read here is a built-in property of a primitive)
Prop(v, key) ==
    IF v.tag = "object" /\ key \in DOMAIN v.f THEN v.f[key] ELSE JUndefined

\* a === b
StrictEquals(a, b) == a.tag = b.tag /\ a = b

ParseFail == [ok |-> FALSE, v |-> JUndefined, p |-> 0]
ParseOk(v, p) == [ok |-> TRUE, v |-> v, p |-> p]

IsJsonSpace(c) == c \in {9, 10, 13, 32}
IsDigit(c) == c >= 48 /\ c <= 57

RECURSIVE SkipWs(_, _)
SkipWs(s, p) ==
    IF p <= Len(s) /\ IsJsonSpace(s[p]) THEN SkipWs(s, p + 1) ELSE p

\* s[p..] starts with the literal w
StartsWith(s, p, w) ==
    p + Len(w) - 1 <= Len(s) /\ SubSeq(s, p, p + Len(w) - 1) = w

\* a string token opening at s[p] = '"'; escapes are outside the model, no
\* body of the model holds a backslash
ParseString(s, p) ==
    LET qs == {q \in (p + 1)..Len(s) : s[q] = 34} IN
    IF qs = {} THEN ParseFail
    ELSE LET q == CHOOSE q \in qs : \A o \in qs : q <= o IN
         IF \E k \in (p + 1)..(q - 1) : s[k] < 32 \/ s[k] = 92
         THEN ParseFail
         ELSE ParseOk(JStr(SubSeq(s, p + 1, q - 1)), q + 1)

RECURSIVE ParseDigits(_, _, _)
ParseDigits(s, p, acc) ==
    IF p <= Len(s) /\ IsDigit(s[p])
    THEN ParseDigits(s, p + 1, acc * 10 + (s[p] - 48))
    ELSE [n |-> acc, p |-> p]

\* an integer token; fractions and exponents are outside the model
ParseNumber(s, p) ==
    LET neg == s[p] = 45
        d   == IF neg THEN p + 1 ELSE p
    IN  IF d > Len(s) \/ ~IsDigit(s[d]) THEN ParseFail
        ELSE IF s[d] = 48 /\ d + 1 <= Len(s) /\ IsDigit(s[d + 1])
        THEN ParseFail
        ELSE LET r == ParseDigits(s, d, 0) IN
             IF r.p <= Len(s) /\ s[r.p] \in {46, 69, 101} THEN ParseFail
             ELSE ParseOk(JNum(IF neg THEN 0 - r.n ELSE r.n), r.p)

RECURSIVE ParseValue(_, _)
RECURSIVE ParseMembers(_, _, _)

\* the members of an object from s[p] (a key is expected there), f the
\* members read so far; a repeated key keeps its last value
ParseMembers(s, p, f) ==
    IF p > Len(s) \/ s[p] # 34 THEN ParseFail
    ELSE LET k == ParseString(s, p) IN
         IF ~k.ok THEN ParseFail
         ELSE LET c == SkipWs(s, k.p) IN
              IF c > Len(s) \/ s[c] # 58 THEN ParseFail
              ELSE LET v == ParseValue(s, SkipWs(s, c + 1)) IN
                   IF ~v.ok THEN ParseFail
                   ELSE LET e == SkipWs(s, v.p)
                            g == (k.v.s :> v.v) @@ f
                        IN  IF e > Len(s) THEN ParseFail
                            ELSE IF s[e] = 125 THEN ParseOk(JObj(g), e + 1)
                            ELSE IF s[e] = 44
                            THEN ParseMembers(s, SkipWs(s, e + 1), g)
                            ELSE ParseFail

\* arrays are outside the model: no body of the model holds a bracket
ParseValue(s, p) ==
    IF p > Len(s) THEN ParseFail
    ELSE IF s[p] = 123
    THEN LET q == SkipWs(s, p + 1) IN
         IF q <= Len(s) /\ s[q] = 125
         THEN ParseOk(JObj([k \in {} |-> JUndefined]), q + 1)
         ELSE ParseMembers(s, q, [k \in {} |-> JUndefined])
    ELSE IF s[p] = 34 THEN ParseString(s, p)
    ELSE IF s[p] = 45 \/ IsDigit(s[p]) THEN ParseNumber(s, p)
    ELSE IF StartsWith(s, p, <<110, 117, 108, 108>>) THEN ParseOk(JNull, p + 4)
    ELSE IF StartsWith(s, p, <<116, 114, 117, 101>>)
    THEN ParseOk(JBool(TRUE), p + 4)
    ELSE IF StartsWith(s, p, <<102, 97, 108, 115, 101>>)
    THEN ParseOk(JBool(FALSE), p + 5)
    ELSE ParseFail

\* JSON.parse(text): the value, or a SyntaxError
JSONParse(text) ==
    LET r == ParseValue(text, SkipWs(text, 1)) IN
    IF r.ok /\ SkipWs(text, r.p) > Len(text)
    THEN [ok |-> TRUE, v |-> r.v]
    ELSE [ok |-> FALSE, v |-> JUndefined]

\* ------------------------------------------------------------------------
\* The Ed25519 primitives of crypto.subtle (lines 26-35 and 38-43)
\* ------------------------------------------------------------------------
\* raw Ed25519 public keys are 32 bytes, signatures 64 bytes
KeyLen == 32
SigLen == 64

\* the platform's public key, as raw bytes
PlatformKey == [i \in 1..KeyLen |-> (11 * i + 5) % 256]

\* The signature the platform's private key gives the message m.  The
\* primitive is idealised: for messages shorter than SigLen the signature
\* determines the message, so no two of them share a signature.
Sign(m) ==
    [i \in 1..SigLen |->
        IF i = SigLen THEN Len(m) % 256
        ELSE IF i <= Len(m) THEN (m[i] + 7 * i) % 256
        ELSE (7 * i) % 256]

\* crypto.subtle.importKey('raw', keyData, Ed25519): key data that is not 32
\* bytes is rejected (DataError); 32 bytes that are not the platform's key
\* may or may not be a valid curve point.
ImportKeyOutcomes(keyData) ==
    IF Len(keyData) # KeyLen THEN {"DataError"}
    ELSE IF keyData = PlatformKey THEN {"ok"}
    ELSE {"ok", "DataError"}

\* crypto.subtle.verify('Ed25519', key, signature, data): true exactly for
\* the platform's signature over data under the platform's key
Ed25519Verify(key, signature, data) ==
    key = PlatformKey /\ Len(signature) = SigLen /\ signature = Sign(data)

\* ------------------------------------------------------------------------
\* Process-wide constants (lines 9-13) and responses
\* ------------------------------------------------------------------------
\* "Yeh, nah" and "Nah, yeh"
PoolStrings ==
    << <<89, 101, 104, 44, 32, 110, 97, 104>>,
       <<78, 97, 104, 44, 32, 121, 101, 104>> >>

\* the 8-ball emoji U+1F3B1 and a space, the head of the button's reply
Marker == <<127921, 32>>

K_type      == <<116, 121, 112, 101>>
K_data      == <<100, 97, 116, 97>>
K_name      == <<110, 97, 109, 101>>
K_custom_id == <<99, 117, 115, 116, 111, 109, 95, 105, 100>>
S_gork      == <<103, 111, 114, 107>>
S_gork_ephemeral ==
    <<103, 111, 114, 107, 45, 101, 112, 104, 101, 109, 101, 114, 97, 108>>
S_ask_gork  == <<97, 115, 107, 95, 103, 111, 114, 107>>
S_undefined == <<117, 110, 100, 101, 102, 105, 110, 101, 100>>

\* what a handler leaves behind: a body sent with a status, or an exception
\* that leaves the handler (the handler itself then sends nothing)
SendText(status, text) == [kind |-> "text", status |-> status, text |-> text]
SendJson(payload)      == [kind |-> "json", status |-> 200, json |-> payload]
Threw(error)           == [kind |-> "throw", error |-> error]
NoResponse             == [kind |-> "none"]

\* RandomIndex with Math.round in place of Math.floor
RandomIndexRound(rnd, length) == (2 * rnd * length + RandRes) \div (2 * RandRes)

\* Math.floor(Math.random() * length), Math.random() being rnd / RandRes
RandomIndex(rnd, length) == (rnd * length) \div RandRes

\* RESPONSES[index]: undefined outside the array
PickResponse(pool, rnd) ==
    LET index == RandomIndex(rnd, Len(pool)) IN
    IF index + 1 \in DOMAIN pool THEN JStr(pool[index + 1]) ELSE JUndefined

\* ButtonContent without the marker
ButtonContentPlain(response) == response

\* the template literal of line 124
ButtonContent(response) ==
    JStr(Marker \o (IF response.tag = "string" THEN response.s ELSE S_undefined))

\* PingAck with a data member beside the type
PingAckWithData == [type |-> 1, data |-> [flags |-> 0]]

\* line 79
PingAck == [type |-> 1]

Message(content, flags) ==
    [type |-> 4, data |-> [content |-> content, flags |-> flags]]

\* ------------------------------------------------------------------------
\* Interaction dispatch (lines 77-131)
\* ------------------------------------------------------------------------
Dispatch(interaction, rnd, pool) ==
    IF ~CanRead(interaction) THEN Threw("TypeError")
    ELSE LET type == Prop(interaction, K_type)
             data == Prop(interaction, K_data)
         IN
         IF StrictEquals(type, JNum(1)) THEN SendJson(PingAck)
         ELSE IF StrictEquals(type, JNum(2))
         THEN IF ~CanRead(data) THEN Threw("TypeError")
              ELSE IF StrictEquals(Prop(data, K_name), JStr(S_gork))
              THEN SendJson(Message(PickResponse(pool, rnd), 0))
              ELSE IF StrictEquals(Prop(data, K_name), JStr(S_gork_ephemeral))
              THEN SendJson(Message(PickResponse(pool, rnd), 64))
              ELSE SendText(400, "Unknown interaction type")
         ELSE IF StrictEquals(type, JNum(3))
         THEN IF ~CanRead(data) THEN Threw("TypeError")
              ELSE IF StrictEquals(Prop(data, K_custom_id), JStr(S_ask_gork))
              THEN SendJson(Message(ButtonContent(PickResponse(pool, rnd)), 64))
              ELSE SendText(400, "Unknown interaction type")
         ELSE SendText(400, "Unknown interaction type")

\* ------------------------------------------------------------------------
\* The handler after the verification settles (lines 70-131)
\* ------------------------------------------------------------------------
Pending        == [tag |-> "pending"]
Rejected(e)    == [tag |-> "rejected", error |-> e]
Unassigned     == [tag |-> "unassigned"]

\* NotValid for a handler that never turns a request away
NotValidNever(isValid) == FALSE

\* line 71: if (!isValid)
NotValid(isValid) == isValid = JBool(FALSE)

\* what the handler does once verifyDiscordSignature has settled with v:
\* the response, whether JSON.parse was called, and the value it returned
InteractionsTail(v, body, rnd, pool) ==
    IF v.tag = "rejected"
    THEN [response |-> Threw(v.error), parsed |-> FALSE,
          interaction |-> Unassigned]
    ELSE IF NotValid(v)
    THEN [response |-> SendText(401, "Unauthorized"), parsed |-> FALSE,
          interaction |-> Unassigned]
    ELSE LET p == JSONParse(body) IN
         IF ~p.ok
         THEN [response |-> Threw("SyntaxError"), parsed |-> TRUE,
               interaction |-> Unassigned]
         ELSE [response |-> Dispatch(p.v, rnd, pool), parsed |-> TRUE,
               interaction |-> p.v]

\* ------------------------------------------------------------------------
\* Requests and configuration the handlers are run on
\* ------------------------------------------------------------------------
HexChar(n)      == IF n < 10 THEN 48 + n ELSE 87 + n
HexCharUpper(n) == IF n < 10 THEN 48 + n ELSE 55 + n

\* the lower-case and upper-case hexadecimal text of a byte array
ToHex(b) ==
    [k \in 1..(2 * Len(b)) |->
        IF k % 2 = 1 THEN HexChar(b[(k + 1) \div 2] \div 16)
        ELSE HexChar(b[k \div 2] % 16)]
ToHexUpper(b) ==
    [k \in 1..(2 * Len(b)) |->
        IF k % 2 = 1 THEN HexCharUpper(b[(k + 1) \div 2] \div 16)
        ELSE HexCharUpper(b[k \div 2] % 16)]

\* every character is a hexadecimal digit and the length is even
WellFormedHex(h) ==
    Len(h) % 2 = 0 /\ \A k \in 1..Len(h) : HexDigit(h[k]) >= 0

\* h with its first pair "0d" rewritten "dg": no longer hexadecimal
NotQuiteHex(h) ==
    LET ks == {k \in 1..(Len(h) \div 2) : h[2 * k - 1] = 48} IN
    IF ks = {} THEN h
    ELSE LET k == CHOOSE k \in ks : \A o \in ks : k <= o IN
         [j \in 1..Len(h) |->
            IF j = 2 * k - 1 THEN h[2 * k] ELSE IF j = 2 * k THEN 103 ELSE h[j]]

\* the timestamp "17"
Timestamp == <<49, 55>>

H_sig == "x-signature-ed25519"
H_ts  == "x-signature-timestamp"

Request(headers, rawBody) == [headers |-> headers, rawBody |-> rawBody]

\* the signature the platform sends with timestamp ts and body rawBody
PlatformSignature(ts, rawBody) == Sign(Utf8Encode(ts) \o rawBody)

\* a request as the platform sends it
Signed(ts, rawBody) ==
    Request((H_sig :> ToHex(PlatformSignature(ts, rawBody))) @@ (H_ts :> ts),
            rawBody)

\* the same request with another text in the signature header
WithSignature(req, sig) ==
    Request((H_sig :> sig) @@ (H_ts :> req.headers[H_ts]), req.rawBody)

\* requests that are not what the platform sent
Tampered(ts, rawBody) ==
    LET good == Signed(ts, rawBody)
        sig  == PlatformSignature(ts, rawBody)
        hex  == ToHex(sig)
    IN  { WithSignature(good, ToHexUpper(sig)),
          WithSignature(good, NotQuiteHex(hex)),
          WithSignature(good, ToHex([sig EXCEPT ![1] = (@ + 1) % 256])),
          WithSignature(good, [k \in 1..(2 * SigLen) |-> 122]),
          WithSignature(good, SubSeq(hex, 1, Len(hex) - 1)),
          WithSignature(good, <<>>),
          Request((H_ts :> ts), rawBody),
          Request((H_sig :> hex), rawBody),
          Request((H_sig :> hex) @@ (H_ts :> <<>>), rawBody) }

BodyPing == <<123, 34, 116, 121, 112, 101, 34, 58, 49, 125>>
BodyPingExtra ==
    <<123, 34, 116, 121, 112, 101, 34, 58, 49, 44, 34, 100, 97, 116, 97, 34,
      58, 123, 34, 110, 97, 109, 101, 34, 58, 34, 103, 111, 114, 107, 34, 125,
      125>>
BodyGork ==
    <<123, 34, 116, 121, 112, 101, 34, 58, 50, 44, 34, 100, 97, 116, 97, 34,
      58, 123, 34, 110, 97, 109, 101, 34, 58, 34, 103, 111, 114, 107, 34, 125,
      125>>
BodyGorkEphemeral ==
    <<123, 34, 116, 121, 112, 101, 34, 58, 50, 44, 34, 100, 97, 116, 97, 34,
      58, 123, 34, 110, 97, 109, 101, 34, 58, 34, 103, 111, 114, 107, 45, 101,
      112, 104, 101, 109, 101, 114, 97, 108, 34, 125, 125>>
BodyUnknownCmd ==
    <<123, 34, 116, 121, 112, 101, 34, 58, 50, 44, 34, 100, 97, 116, 97, 34,
      58, 123, 34, 110, 97, 109, 101, 34, 58, 34, 117, 110, 107, 110, 111, 119,
      110, 45, 99, 109, 100, 34, 125, 125>>
BodyCmdNoData == <<123, 34, 116, 121, 112, 101, 34, 58, 50, 125>>
BodyAskGork ==
    <<123, 34, 116, 121, 112, 101, 34, 58, 51, 44, 34, 100, 97, 116, 97, 34,
      58, 123, 34, 99, 117, 115, 116, 111, 109, 95, 105, 100, 34, 58, 34, 97,
      115, 107, 95, 103, 111, 114, 107, 34, 125, 125>>
BodyOtherButton ==
    <<123, 34, 116, 121, 112, 101, 34, 58, 51, 44, 34, 100, 97, 116, 97, 34,
      58, 123, 34, 99, 117, 115, 116, 111, 109, 95, 105, 100, 34, 58, 34, 111,
      116, 104, 101, 114, 34, 125, 125>>
BodyComponentNoData == <<123, 34, 116, 121, 112, 101, 34, 58, 51, 125>>
BodyType99 == <<123, 34, 116, 121, 112, 101, 34, 58, 57, 57, 125>>
BodyStringType == <<123, 34, 116, 121, 112, 101, 34, 58, 34, 49, 34, 125>>
BodyNull == <<110, 117, 108, 108>>
BodyNotJson == <<110, 111, 116, 32, 106, 115, 111, 110>>
BodyEmpty == <<>>
\* a byte order mark before {"type":1}
BodyBomPing == <<239, 187, 191>> \o BodyPing
\* {"type":2,"data":{"name":"gork"}} with the byte FF after gork
BodyGorkFF == SubSeq(BodyGork, 1, 30) \o <<255>> \o SubSeq(BodyGork, 31, 33)

Bodies ==
    { BodyPing, BodyPingExtra, BodyGork, BodyGorkEphemeral, BodyUnknownCmd,
      BodyCmdNoData, BodyAskGork, BodyOtherButton, BodyComponentNoData,
      BodyType99, BodyStringType, BodyNull, BodyNotJson, BodyEmpty,
      BodyBomPing, BodyGorkFF }

\* the requests of Spec
Requests ==
    {Signed(Timestamp, b) : b \in Bodies}
        \cup Tampered(Timestamp, BodyPing) \cup Tampered(Timestamp, BodyGork)

\* the requests of SpecConc
ConcRequests ==
    { Signed(Timestamp, BodyPing), Signed(Timestamp, BodyGork),
      Signed(Timestamp, BodyGorkEphemeral), Signed(Timestamp, BodyCmdNoData),
      WithSignature(Signed(Timestamp, BodyGork),
                    [k \in 1..(2 * SigLen) |-> 122]) }

\* the bytes the bodies of SpecMsg are made of: "1", the two bytes of
\* U+00E9, the three bytes of the byte order mark, and FF
MsgBytes == {49, 195, 169, 239, 187, 191, 255}

RECURSIVE SeqsUpTo(_, _)
SeqsUpTo(S, n) ==
    IF n = 0 THEN {<<>>}
    ELSE LET shorter == SeqsUpTo(S, n - 1) IN
         shorter \cup {Append(q, x) : q \in shorter, x \in S}

\* the requests of SpecMsg
MsgRequests == {Signed(Timestamp, b) : b \in SeqsUpTo(MsgBytes, MaxBodyLen)}

E_key == "DISCORD_PUBLIC_KEY"

\* the environment with the platform's key, none, an empty one, one of 31
\* bytes, and one whose first pair of characters is "zz"
EnvGood   == (E_key :> ToHex(PlatformKey))
EnvUnset  == [n \in {} |-> <<>>]
EnvEmpty  == (E_key :> <<>>)
EnvShort  == (E_key :> SubSeq(ToHex(PlatformKey), 1, 2 * KeyLen - 2))
EnvNonHex == (E_key :> [ToHex(PlatformKey) EXCEPT ![1] = 122, ![2] = 122])

Environments     == {EnvGood, EnvUnset, EnvEmpty, EnvShort, EnvNonHex}
ConcEnvironments == {EnvGood, EnvUnset, EnvShort}

\* ------------------------------------------------------------------------
\* State
\* ------------------------------------------------------------------------
Handlers == 1..NumHandlers

VARIABLES
    environment,  \* the variables env() reads
    RESPONSES,    \* the module-level array of lines 10-13
    handler       \* per request in flight: where it is, and its locals

vars == <<environment, RESPONSES, handler>>

\* request.headers.get(name): null for a header that is not there
HeadersGet(req, name) ==
    IF name \in DOMAIN req.headers THEN JStr(req.headers[name]) ELSE JNull

\* env(name): the empty string for a variable that is not set
Env(e, name) == IF name \in DOMAIN e THEN JStr(e[name]) ELSE JStr(<<>>)

Truthy(v) == v.tag = "string" /\ v.s # <<>>

\* MissingInput without the test of the public key
MissingInputNoKey(signature, timestamp, publicKey) ==
    ~Truthy(signature) \/ ~Truthy(timestamp)

\* line 21
MissingInput(signature, timestamp, publicKey) ==
    ~Truthy(signature) \/ ~Truthy(timestamp) \/ ~Truthy(publicKey)

\* the locals of a handler that has no request
Idle ==
    [pc |-> "idle", request |-> Request(<<>>, <<>>), body |-> <<>>,
     keyData |-> <<>>, message |-> <<>>, signature |-> <<>>,
     isValid |-> Pending, calls |-> <<>>, parsed |-> FALSE,
     interaction |-> Unassigned, response |-> NoResponse]

Init(envs) ==
    /\ environment \in envs
    /\ RESPONSES = PoolStrings
    /\ handler = [r \in Handlers |-> Idle]

\* lines 228-229 and 66-67: the router starts the handler, which asks for
\* the body and waits for it
Receive(r, reqs) ==
    /\ handler[r].pc = "idle"
    /\ \E req \in reqs :
         handler' = [handler EXCEPT ![r] = [Idle EXCEPT !.pc = "text",
                                                        !.request = req]]
    /\ UNCHANGED <<environment, RESPONSES>>

\* lines 67, 70 and 17-35: the body arrives as text; verifyDiscordSignature
\* reads its three inputs and either returns false or calls importKey
ReadBody(r) ==
    /\ handler[r].pc = "text"
    /\ LET h         == handler[r]
           signature == HeadersGet(h.request, H_sig)
           timestamp == HeadersGet(h.request, H_ts)
           publicKey == Env(environment, E_key)
           text      == Utf8Decode(h.request.rawBody)
       IN  IF MissingInput(signature, timestamp, publicKey)
           THEN handler' = [handler EXCEPT ![r] =
                    [h EXCEPT !.pc = "resolved", !.body = text,
                              !.isValid = JBool(FALSE)]]
           ELSE handler' = [handler EXCEPT ![r] =
                    [h EXCEPT !.pc = "importKey", !.body = text,
                              !.keyData = hexToBytes(publicKey.s),
                              !.calls = Append(@, "importKey")]]
    /\ UNCHANGED <<environment, RESPONSES>>

\* lines 26-43: importKey gives the key; the signature is decoded, the
\* message encoded and crypto.subtle.verify called
ImportKeyResolved(r) ==
    /\ handler[r].pc = "importKey"
    /\ "ok" \in ImportKeyOutcomes(handler[r].keyData)
    /\ LET h == handler[r] IN
       handler' = [handler EXCEPT ![r] =
           [h EXCEPT !.pc = "verify",
                     !.signature = hexToBytes(h.request.headers[H_sig]),
                     !.message =
                         Utf8Encode(h.request.headers[H_ts] \o h.body),
                     !.calls = Append(@, "verify")]]
    /\ UNCHANGED <<environment, RESPONSES>>

\* lines 26-35: importKey rejects, and with it verifyDiscordSignature
ImportKeyRejected(r) ==
    /\ handler[r].pc = "importKey"
    /\ "DataError" \in ImportKeyOutcomes(handler[r].keyData)
    /\ handler' = [handler EXCEPT ![r] =
           [@ EXCEPT !.pc = "resolved", !.isValid = Rejected("DataError")]]
    /\ UNCHANGED <<environment, RESPONSES>>

\* VerifyDone with the result kept in one variable that every handler
\* awaiting its verification reads
VerifyDoneShared(r) ==
    /\ handler[r].pc = "verify"
    /\ LET h == handler[r]
           v == JBool(Ed25519Verify(h.keyData, h.signature, h.message))
       IN  handler' = [s \in Handlers |->
               IF s = r THEN [h EXCEPT !.pc = "resolved", !.isValid = v]
               ELSE IF handler[s].pc = "resolved"
               THEN [handler[s] EXCEPT !.isValid = v]
               ELSE handler[s]]
    /\ UNCHANGED <<environment, RESPONSES>>

\* lines 38-45: verify settles and verifyDiscordSignature returns its result
VerifyDone(r) ==
    /\ handler[r].pc = "verify"
    /\ LET h == handler[r] IN
       handler' = [handler EXCEPT ![r] =
           [h EXCEPT !.pc = "resolved",
                     !.isValid = JBool(Ed25519Verify(h.keyData, h.signature,
                                                     h.message))]]
    /\ UNCHANGED <<environment, RESPONSES>>

\* lines 70-131: the handler goes on with the result of the verification
Respond(r) ==
    /\ handler[r].pc = "resolved"
    /\ \E rnd \in 0..(RandRes - 1) :
         LET h == handler[r]
             t == InteractionsTail(h.isValid, h.body, rnd, RESPONSES)
         IN  handler' = [handler EXCEPT ![r] =
                 [h EXCEPT !.pc = "done", !.parsed = t.parsed,
                           !.interaction = t.interaction,
                           !.response = t.response]]
    /\ UNCHANGED <<environment, RESPONSES>>

\* the request and everything made for it is dropped once it is answered
Discard(r) ==
    /\ handler[r].pc = "done"
    /\ handler' = [handler EXCEPT ![r] = Idle]
    /\ UNCHANGED <<environment, RESPONSES>>

Step(r, reqs) ==
    \/ Receive(r, reqs)
    \/ ReadBody(r)
    \/ ImportKeyResolved(r)
    \/ ImportKeyRejected(r)
    \/ VerifyDone(r)
    \/ Respond(r)
    \/ Discard(r)

\* one request at a time, over every request and configuration
InitSeq == Init(Environments)
Next == Step(1, Requests)
Spec == InitSeq /\ [][Next]_vars

\* requests handled concurrently: the handlers interleave at their awaits
InitConc == Init(ConcEnvironments)
NextConc == \E r \in Handlers : Step(r, ConcRequests)
SpecConc == InitConc /\ [][NextConc]_vars

\* one request at a time, over every short body, signed by the platform
InitMsg == Init({EnvGood, EnvShort})
NextMsg == Step(1, MsgRequests)
SpecMsg == InitMsg /\ [][NextMsg]_vars

\* ------------------------------------------------------------------------
\* Properties
\* ------------------------------------------------------------------------
Done(r) == handler[r].pc = "done"

Unauthorized401 == [kind |-> "text", status |-> 401, text |-> "Unauthorized"]

Is400(response) == response.kind = "text" /\ response.status = 400

\* a header of the request of r, or the configured key, is absent or empty
InputMissing(r) ==
    LET hs == handler[r].request.headers IN
    \/ H_sig \notin DOMAIN hs
    \/ hs[H_sig] = <<>>
    \/ H_ts \notin DOMAIN hs
    \/ hs[H_ts] = <<>>
    \/ E_key \notin DOMAIN environment
    \/ environment[E_key] = <<>>

\* the configured key is the hexadecimal text of the platform's key and the
\* signature header the hexadecimal text of the platform's signature over
\* the timestamp and the raw body
Authentic(r) ==
    LET req == handler[r].request
        key == environment[E_key]
        sig == req.headers[H_sig]
    IN  /\ WellFormedHex(key)
        /\ key \in {ToHex(PlatformKey), ToHexUpper(PlatformKey)}
        /\ WellFormedHex(sig)
        /\ LET good == PlatformSignature(req.headers[H_ts], req.rawBody)
           IN  Len(sig) = 2 * SigLen
                 /\ \A k \in 1..SigLen :
                      16 * HexDigit(sig[2 * k - 1]) + HexDigit(sig[2 * k])
                          = good[k]

\* the verification of r returned true
Verified(r) == handler[r].isValid = JBool(TRUE)

C2_MissingInputFails ==
    \A r \in Handlers :
        LET h == handler[r] IN
        (h.pc \notin {"idle", "text"} /\ InputMissing(r))
            => /\ h.pc \in {"resolved", "done"}
               /\ h.calls = <<>>
               /\ h.isValid = JBool(FALSE)
               /\ Done(r) => h.response = Unauthorized401

\* a request with both headers has been answered 401 where no key is
\* configured
C2_Witness ==
    \E r \in Handlers :
        /\ Done(r)
        /\ E_key \notin DOMAIN environment
        /\ Truthy(HeadersGet(handler[r].request, H_sig))
        /\ Truthy(HeadersGet(handler[r].request, H_ts))
        /\ handler[r].calls = <<>>
        /\ handler[r].response = Unauthorized401

\* C3: the verifier fails closed: with the signature, the timestamp and the
\* key present, a key or signature that is malformed, not hexadecimal, or
\* not the platform's makes verifyDiscordSignature return false, never
\* raise, and the request is answered 401.
C3_FailsClosed ==
    \A r \in Handlers :
        (Done(r) /\ ~InputMissing(r) /\ ~Authentic(r))
            => /\ handler[r].isValid = JBool(FALSE)
               /\ handler[r].response = Unauthorized401

\* the payload matches no rule of the dispatcher
NoRuleMatches(v) ==
    LET type == Prop(v, K_type)
        data == Prop(v, K_data)
    IN  /\ ~StrictEquals(type, JNum(1))
        /\ ~(/\ StrictEquals(type, JNum(2))
             /\ \/ StrictEquals(Prop(data, K_name), JStr(S_gork))
                \/ StrictEquals(Prop(data, K_name), JStr(S_gork_ephemeral)))
        /\ ~(/\ StrictEquals(type, JNum(3))
             /\ StrictEquals(Prop(data, K_custom_id), JStr(S_ask_gork)))

\* C4: a verified payload that no rule of the dispatcher matches (an unknown
\* command name, an unknown custom_id, another type, or a payload without
\* the data object its type needs) is answered 400.
C4_UnrecognizedIs400 ==
    \A r \in Handlers :
        LET p == JSONParse(handler[r].body) IN
        (Done(r) /\ Verified(r) /\ p.ok /\ NoRuleMatches(p.v))
            => Is400(handler[r].response)

\* C5: a correctly signed request whose body is not JSON is answered 400,
\* with no rule of the dispatcher evaluated and no reply of status 200.
C5_MalformedJsonIs400 ==
    \A r \in Handlers :
        (Done(r) /\ Verified(r) /\ ~JSONParse(handler[r].body).ok)
            => /\ Is400(handler[r].response)
               /\ handler[r].interaction = Unassigned

\* C6: a verified payload of type 1 is answered with status 200 and exactly
\* {type: 1}, without a data member, whatever else the payload holds.
C6_PingAck ==
    \A r \in Handlers :
        LET h == handler[r] IN
        (Done(r) /\ Verified(r) /\ h.interaction.tag = "object"
            /\ StrictEquals(Prop(h.interaction, K_type), JNum(1)))
            => h.response = [kind |-> "json", status |-> 200,
                             json |-> [type |-> 1]]

\* a ping that also carries a data object has been acknowledged
C6_Witness ==
    \E r \in Handlers :
        /\ Done(r) /\ Verified(r)
        /\ handler[r].request.rawBody = BodyPingExtra
        /\ Prop(handler[r].interaction, K_data).tag = "object"
        /\ handler[r].response.json = [type |-> 1]

\* the verified payload of r is a command (type 2) named name
IsCommand(r, name) ==
    LET h == handler[r] IN
    /\ Done(r) /\ Verified(r) /\ h.interaction.tag = "object"
    /\ StrictEquals(Prop(h.interaction, K_type), JNum(2))
    /\ StrictEquals(Prop(Prop(h.interaction, K_data), K_name), JStr(name))

\* response is a reply of type 4 with these flags whose content is one of
\* the two lines of the pool, each after the text head
IsPoolMessage(response, flags, head) ==
    /\ response.kind = "json" /\ response.status = 200
    /\ DOMAIN response.json = {"type", "data"}
    /\ response.json.type = 4
    /\ response.json.data.flags = flags
    /\ response.json.data.content
          \in { JStr(head \o <<89, 101, 104, 44, 32, 110, 97, 104>>),
                JStr(head \o <<78, 97, 104, 44, 32, 121, 101, 104>>) }

\* C7: a verified command gork is answered with type 4, flags 0 and one of
\* the two pool lines as content, gork-ephemeral the same with flags 64;
\* whatever the random draw, the content is never undefined.
C7_GorkCommands ==
    \A r \in Handlers :
        /\ IsCommand(r, S_gork)
              => IsPoolMessage(handler[r].response, 0, <<>>)
        /\ IsCommand(r, S_gork_ephemeral)
              => IsPoolMessage(handler[r].response, 64, <<>>)

\* both lines of the pool have been sent: the first to gork, the second to
\* gork-ephemeral
C7_Witness ==
    /\ IsCommand(1, S_gork)
    /\ handler[1].response.json.data
          = [content |-> JStr(<<89, 101, 104, 44, 32, 110, 97, 104>>),
             flags |-> 0]
    /\ IsCommand(2, S_gork_ephemeral)
    /\ handler[2].response.json.data
          = [content |-> JStr(<<78, 97, 104, 44, 32, 121, 101, 104>>),
             flags |-> 64]

\* the verified payload of r is the click of a component (type 3) whose
\* custom_id is id
IsComponent(r, id) ==
    LET h == handler[r] IN
    /\ Done(r) /\ Verified(r) /\ h.interaction.tag = "object"
    /\ StrictEquals(Prop(h.interaction, K_type), JNum(3))
    /\ StrictEquals(Prop(Prop(h.interaction, K_data), K_custom_id), JStr(id))

\* C8: a verified click of the component ask_gork is answered with type 4,
\* flags 64 and, as content, the 8-ball emoji and a space followed by one
\* of the two pool lines.
C8_AskGorkButton ==
    \A r \in Handlers :
        IsComponent(r, S_ask_gork)
            => IsPoolMessage(handler[r].response, 64, <<127921, 32>>)

\* the button has been answered with the second line of the pool
C8_Witness ==
    \E r \in Handlers :
        /\ IsComponent(r, S_ask_gork)
        /\ handler[r].response.json.data.content
              = JStr(<<127921, 32, 78, 97, 104, 44, 32, 121, 101, 104>>)

\* what verifyDiscordSignature can settle with for req under configuration
\* e when req is the only request the process ever handles
VerdictsAlone(req, e) ==
    LET signature == HeadersGet(req, H_sig)
        timestamp == HeadersGet(req, H_ts)
        publicKey == Env(e, E_key)
    IN  IF ~Truthy(signature) \/ ~Truthy(timestamp) \/ ~Truthy(publicKey)
        THEN {JBool(FALSE)}
        ELSE { IF o = "ok"
               THEN JBool(Ed25519Verify(
                        hexToBytes(publicKey.s), hexToBytes(signature.s),
                        Utf8Encode(timestamp.s \o Utf8Decode(req.rawBody))))
               ELSE Rejected(o) :
                   o \in ImportKeyOutcomes(hexToBytes(publicKey.s)) }

\* every answer is one the request gets when handled alone, with the
\* configuration and the pool the process started with and some draw
AnswersAsAlone ==
    \A r \in Handlers :
        Done(r) =>
            \E v \in VerdictsAlone(handler[r].request, environment) :
                \E rnd \in 0..(RandRes - 1) :
                    handler[r].response
                        = InteractionsTail(v,
                              Utf8Decode(handler[r].request.rawBody),
                              rnd, PoolStrings).response

\* a step writes neither the configuration nor the pool, and the locals of
\* one handler at most
WritesOwnLocalsOnly ==
    /\ environment' = environment
    /\ RESPONSES' = RESPONSES
    /\ \A r, s \in Handlers :
          (r # s /\ handler'[r] # handler[r]) => handler'[s] = handler[s]

\* C9: under any interleaving of the handlers at their awaits, no step
\* writes state shared between requests, the configured key and the pool
\* never change, and each answer depends only on the request's own headers
\* and body and its own random draw.
C9_RequestsAreIndependent ==
    [](AnswersAsAlone) /\ [][WritesOwnLocalsOnly]_vars

\* a request has been answered 200 while the verification of another, of a
\* wrong signature, has returned false and waits to be acted on
C9_Witness ==
    /\ Done(1) /\ handler[1].response.kind = "json"
    /\ handler[2].pc = "resolved"
    /\ handler[2].calls = <<"importKey", "verify">>
    /\ handler[2].isValid = JBool(FALSE)

\* C10: the message handed to the signature check is the UTF-8 bytes of the
\* timestamp followed by the raw bytes of the body, unaltered, for every
\* body.
C10_MessageIsRawBody ==
    \A r \in Handlers :
        LET h == handler[r] IN
        "verify" \in {h.calls[k] : k \in DOMAIN h.calls}
            => h.message
                 = Utf8Encode(h.request.headers[H_ts]) \o h.request.rawBody

====
